---- MODULE Spec2Model ----
(***************************************************************************)
(* Model of the products-api edge function: a proxy that authenticates     *)
(* against an upstream catalog API, caches the bearer token in module-wide *)
(* state, retries once on 401 and maps the upstream answer to its caller.  *)
(* Two versions of the function exist in the repository: the path-routed   *)
(* one (supabase/functions/products-api/index.ts) and the body-routed one  *)
(* (unnamed/part_001).  Lines 1-88 (cache, getAuthToken,                   *)
(* makeAuthenticatedRequest) are identical in both.                        *)
(*                                                                         *)
(* A request is a JavaScript async call chain; other requests can run only *)
(* at its awaits, so one action is the code between two awaits that touch  *)
(* or depend on shared state or on the upstream.                           *)
(***************************************************************************)
EXTENDS Integers, Sequences, FiniteSets, TLC

(* ---------------- bounds ---------------- *)
NumReqs == 2        \* requests served by the process
MaxClock == 1       \* the clock stops advancing here
MaxSegs == 3        \* segments of a request's URL path
MaxParams == 2      \* query parameters of a list request
MaxProducts == 2    \* products in an upstream list
MaxImages == 2      \* images of an upstream product

(* ---------------- program constants ---------------- *)
\* 50 * 60 * 1000 ms; the model's clock unit is 50 minutes
TTL == 1
\* JavaScript values of authToken that are not a token string
Null == 0
Undefined == -1
EmptyString == -2
\* tokenExpiry after "tokenExpiry = 0"
ZeroExpiry == 0

Reqs == 1..NumReqs
Variants == {"path", "body"}
Methods == {"OPTIONS", "GET", "POST", "PUT", "DELETE", "PATCH"}
\* upstream answers to a product call: 2xx, 401, another non-2xx
OkStatus == 200
Unauthorized == 401
ServerError == 500
NotFound == 404
NetErr == -1
UpstreamStatuses == {OkStatus, Unauthorized, ServerError}

\* a catch that answers without a status, as the list branch does
CatchStatusDefault == OkStatus

\* index.ts lines 173-178, part_001 lines 251-256: the status of the catch
CatchStatus == ServerError

VARIABLES
  variant,      \* which version of the function is deployed
  now,          \* Date.now()
  authToken,    \* line 13
  tokenExpiry,  \* line 14
  tokenWriter,  \* history: the login that wrote authToken (0: the initial or cleared null)
  expiryWriter, \* history: the login that wrote tokenExpiry (0: the initial or cleared 0)
  req,          \* the requests: where each is in its handler, and its locals
  run           \* one application of the handler's request and response shaping

vars == <<variant, now, authToken, tokenExpiry, tokenWriter, expiryWriter, req, run>>

(* ---------------- pure helpers ---------------- *)
\* a test for null and undefined only, which an empty string passes
NotNullish(t) == t \notin {Null, Undefined}

\* JavaScript truthiness of a token value
Truthy(t) == t > 0

\* a || b
Or2(a, b) == IF Truthy(a) THEN a ELSE b

\* the cache check without its use of the cache
CacheNeverValid(tok, exp, t) == FALSE

\* the cache check with <= for <
CacheValidInclusive(tok, exp, t) == Truthy(tok) /\ t <= exp

\* the cache check without the test of the token
CacheValidByExpiry(tok, exp, t) == t < exp

\* line 18: authToken && Date.now() < tokenExpiry
CacheValid(tok, exp, t) == Truthy(tok) /\ t < exp

\* the token paths tried from the last to the first
ExtractTokenLastFirst(data) ==
  Or2(data.accessToken, Or2(data.access_token, Or2(data.token, data.nested)))

\* line 44: data.data?.tokens?.accessToken || data.token || data.access_token || data.accessToken
ExtractToken(data) == Or2(data.nested, Or2(data.token, Or2(data.access_token, data.accessToken)))

\* the expiry without the validity window
NewExpiryNow(t) == t

\* line 52: Date.now() + (50 * 60 * 1000)
NewExpiry(t) == t + TTL

\* line 71: response.status === 401
Is401(status) == status = Unauthorized

\* the k-th login of request r; the upstream hands out a distinct token per login
LoginId(r, k) == 2 * (r - 1) + k


(* ---------------- the handler's routing ---------------- *)
\* requests as the path-routed handler sees them (index.ts): HTTP method, URL path
\* ("coll" = .../products, "item" = .../products/<id>, "other" = no /products), body
PathInputs == [method : Methods, path : {"other", "coll", "item"}, bodyOk : BOOLEAN]

\* requests as the body-routed handler sees them (part_001): HTTP method and the
\* JSON body's method / productId fields
BodyInputs == [method : {"OPTIONS", "POST"},
               bmethod : {"absent", "GET", "POST", "PUT", "DELETE", "PATCH"},
               hasId : BOOLEAN, bodyOk : BOOLEAN]

Inputs(v) == IF v = "path" THEN PathInputs ELSE BodyInputs

\* the body read only for the methods that send one upstream
ParsesBodyOnWrite(v, in) == in.method \in {"POST", "PUT"}

\* index.ts line 99: method !== 'GET' ? await req.json() : null; part_001 line 97
ParsesBody(v, in) == IF v = "path" THEN in.method # "GET" ELSE TRUE

\* index.ts lines 104, 120, 136, 153, 168
RoutePath(in) ==
  CASE in.method = "GET" /\ in.path \in {"coll", "item"} -> "list"
    [] in.method = "POST" /\ in.path \in {"coll", "item"} -> "create"
    [] in.method = "PUT" /\ in.path = "item" -> "update"
    [] in.method = "DELETE" /\ in.path = "item" -> "delete"
    [] OTHER -> "notfound"

\* the body routing without its test of the id
RouteBodyWithoutId(in) ==
  LET m == IF in.bmethod = "absent" THEN "GET" ELSE in.bmethod IN
  CASE m = "GET" -> "list"
    [] m = "POST" -> "create"
    [] m = "PUT" -> "update"
    [] m = "DELETE" -> "delete"
    [] OTHER -> "notfound"

\* part_001 lines 98, 105, 160, 196, 232, 246
RouteBody(in) ==
  LET m == IF in.bmethod = "absent" THEN "GET" ELSE in.bmethod IN
  CASE m = "GET" -> "list"
    [] m = "POST" -> "create"
    [] m = "PUT" /\ in.hasId -> "update"
    [] m = "DELETE" /\ in.hasId -> "delete"
    [] OTHER -> "notfound"

Route(v, in) == IF v = "path" THEN RoutePath(in) ELSE RouteBody(in)

\* the handler reading the body before it looks at the method
ClassifyParsesFirst(v, in) ==
  IF ParsesBody(v, in) /\ ~in.bodyOk THEN "badbody"
  ELSE IF in.method = "OPTIONS" THEN "options"
  ELSE Route(v, in)

\* index.ts lines 92-101, part_001 lines 92-102: what the handler does with a
\* request before any upstream call: answer the preflight, fail on the body, route
Classify(v, in) ==
  IF in.method = "OPTIONS" THEN "options"
  ELSE IF ParsesBody(v, in) /\ ~in.bodyOk THEN "badbody"
  ELSE Route(v, in)

\* what a request asks for, read off the request alone: the CORS preflight, one of
\* the four operations (a collection path or an item path with the method that
\* goes with it; a body method with the id it needs), or none of them
Asked(v, in) ==
  IF in.method = "OPTIONS" THEN "preflight"
  ELSE IF v = "path"
    THEN IF \/ in.method \in {"GET", "POST"} /\ in.path # "other"
            \/ in.method \in {"PUT", "DELETE"} /\ in.path = "item"
           THEN "operation" ELSE "nomatch"
    ELSE IF \/ in.bmethod \in {"absent", "GET", "POST"}
            \/ in.bmethod \in {"PUT", "DELETE"} /\ in.hasId
           THEN "operation" ELSE "nomatch"

\* whether the request has a body the handler reads and cannot parse, read off
\* the request alone: the path-routed handler reads the body of every method but
\* GET, the body-routed handler of every request; OPTIONS is answered before
Unreadable(v, in) ==
  /\ in.method # "OPTIONS"
  /\ v = "path" => in.method # "GET"
  /\ ~in.bodyOk

\* the upstream call a routed operation makes: method, endpoint, whether a body is sent
CallShape(op) ==
  CASE op = "list" -> [method |-> "GET", endpoint |-> "/admin/products", body |-> FALSE]
    [] op = "create" -> [method |-> "POST", endpoint |-> "/admin/products", body |-> TRUE]
    [] op = "update" -> [method |-> "PUT", endpoint |-> "/admin/products/{id}", body |-> TRUE]
    [] op = "delete" -> [method |-> "DELETE", endpoint |-> "/admin/products/{id}", body |-> FALSE]

\* The status the handler answers with once makeAuthenticatedRequest returned an
\* upstream response of status s whose body is JSON or not.
\* list: new Response(JSON.stringify(data), { headers }) carries no status, so 200;
\* create/update: status: response.status after await response.json();
\* delete: status: response.status after await response.text();
\* an exception (response.json() on a non-JSON body) goes to the catch: 500.
HandlerStatus(v, op, s, bodyJson) ==
  CASE op = "list" -> IF bodyJson THEN OkStatus ELSE CatchStatus
    [] op \in {"create", "update"} -> IF bodyJson THEN s ELSE CatchStatus
    [] op = "delete" -> s

\* whether the handler's branch for op throws on the upstream's body: list, create
\* and update read it with response.json(), delete with response.text()
BodyThrows(op, bodyJson) == op \in {"list", "create", "update"} /\ ~bodyJson

(* ---------------- upstream answers ---------------- *)
\* body of a login answer: the token at one of the four places it may be at, at
\* none of them, or an empty string at the last of them
LoginShapes == {"nested", "token", "access_token", "accessToken", "none", "empty"}

LoginBody(shape, tok) ==
  [nested |-> IF shape = "nested" THEN tok ELSE Undefined,
   token |-> IF shape = "token" THEN tok ELSE Undefined,
   access_token |-> IF shape = "access_token" THEN tok ELSE Undefined,
   accessToken |-> IF shape = "accessToken" THEN tok
                   ELSE IF shape = "empty" THEN EmptyString ELSE Undefined]

\* answers of POST /auth/login: a network failure, a non-ok status, an ok status with a body
LoginAnswers(tok) ==
  {[kind |-> "neterr"], [kind |-> "notok"]}
    \cup {[kind |-> "ok", body |-> LoginBody(sh, tok)] : sh \in LoginShapes}

\* lines 24-49: what getAuthToken makes of a login answer: a throw before the
\* cache is written (lines 24, 35-39), or the value line 44 assigns to authToken
LoginResult(ans) ==
  IF ans.kind = "ok" THEN [thrown |-> FALSE, tok |-> ExtractToken(ans.body)]
  ELSE [thrown |-> TRUE, tok |-> Undefined]

(* ---------------- state ---------------- *)
\* pc: idle, login (the login fetch is out), gotToken (getAuthToken's promise is
\* resolved, the awaiting caller has not resumed), call (the product fetch is out), done.
\* op: the routed operation. attempt: 1 before a 401, 2 after.
\* token, tokExp: the token getAuthToken returned and the expiry stored with it.
\* History of the request: sawValid, sawTok, startExpired (what the cache held
\* when the request first read it: a token with its expiry ahead, that token, a
\* token past its expiry), hit (its first getAuthToken returned the cached
\* token), nLogin (logins sent), shapes (product calls
\* sent), sent, sentLive (the token of the last call, and whether it was within
\* its expiry when the call went out), first (the status answered to the first
\* call), upstream (the status makeAuthenticatedRequest returned), authFailed
\* (getAuthToken threw), effect (what the step that ended the request did to the
\* cache), leftValid (getAuthToken threw and left a token with its expiry ahead
\* in the cache), status (the status answered to the caller), asked (what the
\* request asked for), unreadable (it came with a body to read that is no JSON),
\* threw (the handler ended in its catch).
IdleReq == [pc |-> "idle", op |-> "none", asked |-> "none", unreadable |-> FALSE,
            threw |-> FALSE,
            attempt |-> 0, token |-> Null, tokExp |-> 0,
            sawValid |-> FALSE, sawTok |-> Null, startExpired |-> FALSE,
            hit |-> FALSE, nLogin |-> 0, shapes |-> <<>>, sent |-> Null,
            sentLive |-> TRUE, first |-> 0, upstream |-> 0, authFailed |-> FALSE,
            effect |-> "none", leftValid |-> FALSE, status |-> 0]

\* no shaping applied
NoRun == [fn |-> "none"]

\* lines 13-14
Init ==
  /\ variant \in Variants
  /\ now = 0
  /\ authToken = Null
  /\ tokenExpiry = ZeroExpiry
  /\ tokenWriter = 0
  /\ expiryWriter = 0
  /\ req = [r \in Reqs |-> IdleReq]
  /\ run = NoRun

\* the handler ends: the Response it returns (or the catch's 500). Of the history
\* of its calls a finished request keeps the counts and the statuses.
Respond(rec, s) ==
  [rec EXCEPT !.pc = "done", !.status = s, !.token = Null, !.tokExp = 0,
              !.sawTok = Null, !.startExpired = FALSE, !.sent = Null, !.sentLive = TRUE]

\* what a step did to the cache: nothing ("none"), replaced one non-token by
\* another, as null by undefined ("blank"), or changed the credential ("changed")
CacheEffect(tok, exp, tok2, exp2) ==
  IF tok = tok2 /\ exp = exp2 THEN "none"
  ELSE IF ~Truthy(tok) /\ ~Truthy(tok2) /\ exp = exp2 THEN "blank"
  ELSE "changed"

\* the request record rec as its handler ends in a step that takes the cache to
\* (tok2, exp2)
Ended(rec, tok2, exp2) ==
  [rec EXCEPT !.effect = CacheEffect(authToken, tokenExpiry, tok2, exp2),
              !.leftValid = rec.authFailed /\ tok2 > 0 /\ exp2 > now]

\* the cache check on the stored pair as it was before the caller's step wrote it
GetAuthTokenStale(rec, tok, exp) ==
  IF CacheValid(authToken, tokenExpiry, now)
    THEN [rec EXCEPT !.pc = "gotToken", !.token = authToken, !.tokExp = tokenExpiry]
    ELSE [rec EXCEPT !.pc = "login", !.nLogin = @ + 1]

\* lines 16-33: getAuthToken up to its first await, run by the request with record
\* rec, the cache being (tok, exp): the cached token is returned or a login is sent
GetAuthToken(rec, tok, exp) ==
  IF CacheValid(tok, exp, now)
    THEN [rec EXCEPT !.pc = "gotToken", !.token = tok, !.tokExp = exp]
    ELSE [rec EXCEPT !.pc = "login", !.nLogin = @ + 1]

\* the retry without its bound: every 401 authenticates again
RetriesOnEvery401(rec, s) == Is401(s)

\* the retry on every answer that is not a success
RetriesOnEveryError(rec, s) == rec.attempt = 1 /\ s # OkStatus

\* a second retry after a second 401
RetriesTwice(rec, s) == rec.attempt <= 2 /\ Is401(s)

\* the retry on a 500 as on a 401
RetriesOnServerError(rec, s) == rec.attempt = 1 /\ s \in {Unauthorized, ServerError}

\* lines 71-75 and 87: whether makeAuthenticatedRequest, on the answer s to the
\* call of the request with record rec, clears the cache and authenticates again
RetriesOn(rec, s) == rec.attempt = 1 /\ Is401(s)

(* ---------------- actions ---------------- *)
\* Date.now() moves on
Tick ==
  /\ now < MaxClock
  /\ now' = now + 1
  /\ UNCHANGED <<variant, authToken, tokenExpiry, tokenWriter, expiryWriter, req, run>>

\* serve handler up to the first upstream call (index.ts lines 90-109, part_001
\* lines 90-110): OPTIONS is answered at once, an unparseable body goes to the
\* catch, an unrouted request gets the 404, a routed one calls
\* makeAuthenticatedRequest, whose first statement calls getAuthToken (line 59).
\* The await of the body parse separates code that touches no shared state, so it
\* is no step of its own. Requests are numbered in arrival order.
Arrive(r) ==
  /\ req[r].pc = "idle"
  /\ \A q \in Reqs : q < r => req[q].pc # "idle"
  /\ UNCHANGED <<variant, now, authToken, tokenExpiry, tokenWriter, expiryWriter, run>>
  /\ \E i \in {<<Classify(variant, in), Asked(variant, in), Unreadable(variant, in)>> :
                   in \in Inputs(variant)} :
       LET c == i[1]
           new == [req[r] EXCEPT !.op = c, !.asked = i[2], !.unreadable = i[3]]
           end == Ended(new, authToken', tokenExpiry') IN
       req' = [req EXCEPT ![r] =
                 CASE c = "options" -> Respond(end, OkStatus)
                   [] c = "badbody" -> Respond([end EXCEPT !.threw = TRUE], CatchStatus)
                   [] c = "notfound" -> Respond(end, NotFound)
                   [] OTHER ->
                        LET rec == GetAuthToken([new EXCEPT !.attempt = 1],
                                                authToken, tokenExpiry) IN
                        [rec EXCEPT !.hit = rec.pc = "gotToken",
                                    !.sawValid = authToken > 0 /\ tokenExpiry > now,
                                    !.sawTok = authToken,
                                    !.startExpired = authToken > 0 /\ tokenExpiry <= now]]

\* lines 24-55: the login answers. A failure throws, and the throw reaches the
\* handler's catch: 500. Line 44 writes authToken before line 46 tests it.
LoginReturn(r) ==
  /\ req[r].pc = "login"
  /\ LET id == LoginId(r, req[r].nLogin) IN
     \E res \in {LoginResult(ans) : ans \in LoginAnswers(id)} :
       IF res.thrown
         THEN /\ UNCHANGED <<authToken, tokenExpiry, tokenWriter, expiryWriter>>
              /\ req' = [req EXCEPT ![r] =
                           Respond(Ended([@ EXCEPT !.authFailed = TRUE, !.threw = TRUE],
                                         authToken', tokenExpiry'), CatchStatus)]
         ELSE /\ authToken' = res.tok
              /\ tokenWriter' = id
              /\ IF Truthy(res.tok)
                   THEN /\ tokenExpiry' = NewExpiry(now)
                        /\ expiryWriter' = id
                        /\ req' = [req EXCEPT ![r] =
                                     [@ EXCEPT !.pc = "gotToken", !.token = res.tok,
                                               !.tokExp = NewExpiry(now)]]
                   ELSE /\ UNCHANGED <<tokenExpiry, expiryWriter>>
                        /\ req' = [req EXCEPT ![r] =
                                     Respond(Ended([@ EXCEPT !.authFailed = TRUE, !.threw = TRUE],
                                                   authToken', tokenExpiry'), CatchStatus)]
  /\ UNCHANGED <<variant, now, run>>

\* lines 61-68 and 77-84: the awaiting caller resumes and the product call goes
\* out with the token the await returned
Send(r) ==
  /\ req[r].pc = "gotToken"
  /\ req' = [req EXCEPT ![r] =
               [@ EXCEPT !.pc = "call",
                         !.shapes = Append(@, CallShape(req[r].op)),
                         !.sent = req[r].token,
                         !.sentLive = now < req[r].tokExp,
                         !.token = Null, !.tokExp = 0, !.sawTok = Null]]
  /\ UNCHANGED <<variant, now, authToken, tokenExpiry, tokenWriter, expiryWriter, run>>

\* lines 70-87 and the handler's branch after it: the product call answers.
\* A 401 to the first call clears the cache and calls getAuthToken again; any
\* other answer, and every answer to the second call, goes back to the handler.
\* A fetch that fails throws, and the throw reaches the handler's catch: 500.
ProductReturn(r) ==
  /\ req[r].pc = "call"
  /\ \E s \in UpstreamStatuses \cup {NetErr}, bodyJson \in BOOLEAN :
       LET rec == IF req[r].attempt = 1 THEN [req[r] EXCEPT !.first = s] ELSE req[r] IN
       IF s = NetErr
         THEN /\ UNCHANGED <<authToken, tokenExpiry, tokenWriter, expiryWriter>>
              /\ req' = [req EXCEPT ![r] =
                           Respond(Ended([rec EXCEPT !.upstream = s, !.threw = TRUE],
                                         authToken', tokenExpiry'), CatchStatus)]
       ELSE IF RetriesOn(rec, s)
         THEN /\ authToken' = Null
              /\ tokenExpiry' = ZeroExpiry
              /\ tokenWriter' = 0
              /\ expiryWriter' = 0
              /\ req' = [req EXCEPT ![r] =
                           GetAuthToken([rec EXCEPT !.attempt = @ + 1], Null, ZeroExpiry)]
         ELSE /\ UNCHANGED <<authToken, tokenExpiry, tokenWriter, expiryWriter>>
              /\ req' = [req EXCEPT ![r] =
                           Respond(Ended([rec EXCEPT !.upstream = s,
                                                     !.threw = BodyThrows(rec.op, bodyJson)],
                                         authToken', tokenExpiry'),
                                   HandlerStatus(variant, rec.op, s, bodyJson))]
  /\ UNCHANGED <<variant, now, run>>

Next ==
  \/ Tick
  \/ \E r \in Reqs : Arrive(r)
  \/ \E r \in Reqs : LoginReturn(r)
  \/ \E r \in Reqs : Send(r)
  \/ \E r \in Reqs : ProductReturn(r)

Spec == Init /\ [][Next]_vars

\* Every upstream call answers or fails (the await of fetch at lines 24, 61 and
\* 77 settles), and a caller whose await settled resumes (the event loop runs the
\* continuation of line 59 and of line 75). Nothing makes a request arrive or
\* the clock move.
Fairness ==
  \A r \in Reqs :
    /\ WF_vars(LoginReturn(r))
    /\ WF_vars(Send(r))
    /\ WF_vars(ProductReturn(r))

SpecLive == Init /\ [][Next]_vars /\ Fairness

(* ---------------- request and response shaping ---------------- *)
\* JavaScript values of the shaping code, as strings: a missing key, null, the
\* empty string; every other string stands for itself
Absent == "undefined"
JsNull == "null"
Falsy == {Absent, JsNull, ""}

\* a || b on such values
OrElse(a, b) == IF a \in Falsy THEN b ELSE a

\* all sequences over S of length at most n
RECURSIVE SeqsUpTo(_, _)
SeqsUpTo(S, n) ==
  IF n = 0 THEN {<<>>}
  ELSE LET shorter == SeqsUpTo(S, n - 1) IN
       shorter \cup {Append(q, x) : q \in {t \in shorter : Len(t) = n - 1}, x \in S}

\* ---- requests as they reach the handler ----
\* segments of url.pathname: a prefix, the collection, the function's own name,
\* an id, and the empty segment a trailing slash leaves
Segments == {"v1", "products", "products-api", "p1", ""}

\* items of url.search as written: key, value, and whether the '=' is there
RawParams == {[k |-> "page", v |-> "2", eq |-> TRUE],
              [k |-> "search", v |-> "", eq |-> TRUE],
              [k |-> "search", v |-> "", eq |-> FALSE]}

\* entries of body.params: key, and the value as String(value) prints it, a
\* string or a number
BodyParams == {[k |-> "page", v |-> "2", t |-> "number"],
               [k |-> "search", v |-> "tv", t |-> "string"]}

\* requests to the path-routed handler: req.method, url.pathname, url.search,
\* and whether req.json() finds a JSON body
PathRequests ==
  [method : Methods, segs : SeqsUpTo(Segments, MaxSegs),
   search : SeqsUpTo(RawParams, MaxParams), bodyOk : BOOLEAN]

\* requests to the body-routed handler: req.method and the JSON body's method,
\* productId and params (hasParams: the key is there)
BodyRequests ==
  [method : {"OPTIONS", "POST"}, bodyOk : {TRUE},
   bmethod : {"absent", "GET", "POST", "PUT", "DELETE", "PATCH"},
   productId : {Absent, "", "p1"},
   hasParams : BOOLEAN, params : SeqsUpTo(BodyParams, MaxParams)]
    \cup [method : {"OPTIONS", "POST"}, bodyOk : {FALSE}, bmethod : {"absent"},
          productId : {Absent}, hasParams : {FALSE}, params : {<<>>}]

Requests(v) == IF v = "path" THEN PathRequests ELSE BodyRequests

\* index.ts lines 104, 136: url.pathname.includes('/products') and
\* url.pathname.includes('/products/'), the pathname being the segments each
\* after a '/'
PathOf(segs) ==
  IF \E i \in 1..Len(segs) : segs[i] = "products" /\ i < Len(segs) THEN "item"
  ELSE IF \E i \in 1..Len(segs) : segs[i] \in {"products", "products-api"} THEN "coll"
  ELSE "other"

\* the request as the routing sees it
RoutingInput(v, in) ==
  IF v = "path"
    THEN [method |-> in.method, path |-> PathOf(in.segs), bodyOk |-> in.bodyOk]
    ELSE [method |-> in.method, bmethod |-> in.bmethod,
          hasId |-> in.productId \notin Falsy, bodyOk |-> in.bodyOk]

\* index.ts lines 137, 154: url.pathname.split('/').pop(); part_001 line 99
ProductId(v, in) ==
  IF v = "path" THEN (IF in.segs = <<>> THEN "" ELSE in.segs[Len(in.segs)])
  ELSE in.productId

\* index.ts lines 105-106: new URLSearchParams(url.search).toString();
\* part_001 lines 100, 106-107: new URLSearchParams(body.params || {}).toString():
\* the key=value pairs in their order
QueryString(v, in) ==
  IF v = "path" THEN [i \in 1..Len(in.search) |-> [k |-> in.search[i].k, v |-> in.search[i].v]]
  ELSE IF in.hasParams
    THEN [i \in 1..Len(in.params) |-> [k |-> in.params[i].k, v |-> in.params[i].v]]
    ELSE <<>>

\* the endpoint handed to makeAuthenticatedRequest: index.ts lines 107, 121, 138,
\* 155; part_001 lines 108, 175, 211, 233. mark: the '?' is written
Endpoint(v, op, in) ==
  IF op = "list"
    THEN LET queryString == QueryString(v, in) IN
         [base |-> "/admin/products", id |-> Absent,
          mark |-> queryString # <<>>, query |-> queryString]
  ELSE IF op = "create"
    THEN [base |-> "/admin/products", id |-> Absent, mark |-> FALSE, query |-> <<>>]
  ELSE [base |-> "/admin/products/", id |-> ProductId(v, in), mark |-> FALSE, query |-> <<>>]

\* the handler up to its first upstream call: an answer, or the call
Dispatch(v, in) ==
  LET c == Classify(v, RoutingInput(v, in)) IN
  CASE c = "options" -> [kind |-> "answer", status |-> OkStatus]
    [] c = "badbody" -> [kind |-> "answer", status |-> CatchStatus]
    [] c = "notfound" -> [kind |-> "answer", status |-> NotFound]
    [] OTHER -> [kind |-> "call", op |-> c, method |-> CallShape(c).method,
                 endpoint |-> Endpoint(v, c, in)]

\* serve handler, index.ts lines 90-166, part_001 lines 90-244: one request
\* taken up to its first upstream call
DispatchRequest ==
  /\ run = NoRun
  /\ \E in \in Requests(variant) :
       run' = [fn |-> "dispatch", in |-> in, out |-> Dispatch(variant, in)]
  /\ UNCHANGED <<variant, now, authToken, tokenExpiry, tokenWriter, expiryWriter, req>>

\* ---- the list branch of the body-routed handler (part_001 lines 111-150) ----
\* elements of an images array: a string, an object with a url, an object
\* without one, null; v is the string or the url
ImageElements ==
  {[t |-> "string", v |-> "a"], [t |-> "string", v |-> "b"],
   [t |-> "object", v |-> "a"], [t |-> "object", v |-> "b"],
   [t |-> "object", v |-> Absent], [t |-> "null", v |-> Absent]}

\* a value that may be an array: a missing key, null, an array, or (for
\* apiData.data) an object that is no array
NoList == [kind |-> "absent", items |-> <<>>]
NullList == [kind |-> "null", items |-> <<>>]
Array(items) == [kind |-> "array", items |-> items]

\* line 124: img.url, the element of the mapped array: the url of an object, and
\* undefined for an object without url and for a string
UrlOf(img) ==
  IF img.t = "object" /\ img.v # Absent THEN [t |-> "string", v |-> img.v]
  ELSE [t |-> "undefined", v |-> Absent]

\* lines 123, 185, 221: Array.isArray(images) && images.length > 0 &&
\* typeof images[0] === 'object' && images[0].url, on an array's elements;
\* typeof null is 'object'
ImagesAreObjects(items) ==
  items # <<>> /\ items[1].t = "object" /\ items[1].v \notin Falsy

\* lines 123-124: reading .url of null throws a TypeError
ImagesThrow(items) ==
  /\ items # <<>>
  /\ \/ items[1].t = "null"
     \/ ImagesAreObjects(items) /\ \E i \in 1..Len(items) : items[i].t = "null"

\* the mapping of the first image only
MapFirstUrl(items) ==
  IF ImagesAreObjects(items)
    THEN [i \in 1..Len(items) |-> IF i = 1 THEN UrlOf(items[i]) ELSE items[i]]
    ELSE items

\* lines 123-125, 185-187, 221-223: images.map(img => img.url) when the first
\* element is an object with a url, the array as it is otherwise
MapUrls(items) ==
  IF ImagesAreObjects(items) THEN [i \in 1..Len(items) |-> UrlOf(items[i])] ELSE items

\* lines 120-125: the images of a list item; product.images || [] first
ListImages(images) ==
  IF images.kind = "array" THEN Array(MapUrls(images.items)) ELSE Array(<<>>)

\* the id from the last alias that holds one
LastAliasId(product) == OrElse(product.id, OrElse(product._id, product.productId))

\* line 128: product.productId || product._id || product.id
CanonicalId(product) == OrElse(product.productId, OrElse(product._id, product.id))

\* lines 119-140: one element of transformedProducts (name stands for the
\* fields copied as they are)
TransformProduct(product) ==
  [id |-> CanonicalId(product), name |-> product.name, images |-> ListImages(product.images)]

\* line 116: apiData.data?.products || apiData.products || apiData.data || []
Products(apiData) ==
  IF apiData.data.products.kind = "array" THEN apiData.data.products
  ELSE IF apiData.products.kind = "array" THEN apiData.products
  ELSE IF apiData.data.kind \in {"array", "object"}
    THEN [kind |-> apiData.data.kind, items |-> apiData.data.items]
  ELSE Array(<<>>)

\* lines 144-149: the pagination of transformedData
Pagination(apiData) ==
  [page |-> Or2(apiData.data.currentPage, Or2(apiData.currentPage, 1)),
   limit |-> Or2(apiData.data.limit, Or2(apiData.limit, 10)),
   total |-> Or2(apiData.data.totalProducts, Or2(apiData.totalProducts, Or2(apiData.total, 0))),
   totalPages |-> Or2(apiData.data.totalPages, Or2(apiData.totalPages, 1))]

\* lines 116-150: the list branch on the upstream's JSON: products.map throws
\* when products is no array, and so does reading the url of a null image;
\* otherwise the answer's body is transformedData
TransformedData(apiData) ==
  LET products == Products(apiData) IN
  IF \/ products.kind # "array"
     \/ \E i \in 1..Len(products.items) :
          /\ products.items[i].images.kind = "array"
          /\ ImagesThrow(products.items[i].images.items)
    THEN [thrown |-> TRUE, data |-> <<>>, pagination |-> Pagination(apiData)]
    ELSE [thrown |-> FALSE,
          data |-> [i \in 1..Len(products.items) |-> TransformProduct(products.items[i])],
          pagination |-> Pagination(apiData)]

\* upstream products: each id alias missing or there (productId also null),
\* images missing, null or an array
RawProducts ==
  [productId : {Absent, JsNull, "p1"}, _id : {Absent, "x123"}, id : {Absent, "i1"},
   name : {"A"},
   images : {NoList, NullList} \cup {Array(q) : q \in SeqsUpTo(ImageElements, MaxImages)}]

\* two plain products, to tell product lists apart
PlainProducts ==
  {[productId |-> "p1", _id |-> Absent, id |-> Absent, name |-> "A", images |-> NoList],
   [productId |-> Absent, _id |-> "x123", id |-> Absent, name |-> "A",
    images |-> Array(<<[t |-> "string", v |-> "a"]>>)]}

\* the keys of the upstream's pagination, none of them there
NoPaging ==
  [currentPage |-> Undefined, page |-> Undefined, limit |-> Undefined,
   totalProducts |-> Undefined, total |-> Undefined, totalPages |-> Undefined]

\* the values of the upstream's pagination keys: each missing or a number of
\* its own, the totals also 0
PagingValues(o) ==
  [currentPage : {Undefined, 2 + o}, page : {Undefined, 4 + o}, limit : {Undefined, 10 + o},
   totalProducts : {Undefined, 0, 25 + o}, total : {Undefined, 40 + o},
   totalPages : {Undefined, 0, 7 + o}]

\* apiData put together: apiData.data (kind, items, and an object's keys),
\* apiData.products and the top-level pagination keys
ApiData(kind, items, nestedProducts, nested, products, top) ==
  [data |-> [kind |-> kind, items |-> items, products |-> nestedProducts,
             currentPage |-> nested.currentPage, page |-> nested.page,
             limit |-> nested.limit, totalProducts |-> nested.totalProducts,
             total |-> nested.total, totalPages |-> nested.totalPages],
   products |-> products,
   currentPage |-> top.currentPage, page |-> top.page, limit |-> top.limit,
   totalProducts |-> top.totalProducts, total |-> top.total, totalPages |-> top.totalPages]

\* upstream list payloads: every placing of the product list, every product in
\* a list of its own, every set of pagination keys
ListPayloads ==
  LET lists == {Array(q) : q \in SeqsUpTo(PlainProducts, MaxProducts)} IN
  {ApiData(k, <<>>, NoList, NoPaging, p, NoPaging) :
     k \in {"absent", "null"}, p \in {NoList, NullList} \cup lists}
  \cup {ApiData("array", d.items, NoList, NoPaging, p, NoPaging) :
          d \in lists, p \in {NoList, NullList} \cup lists}
  \cup {ApiData("object", <<>>, n, NoPaging, p, NoPaging) :
          n \in {NoList} \cup lists, p \in {NoList, NullList} \cup lists}
  \cup {ApiData("absent", <<>>, NoList, NoPaging, Array(<<r>>), NoPaging) : r \in RawProducts}
  \cup {ApiData("object", <<>>, Array(<<>>), n, NoList, t) :
          n \in PagingValues(1), t \in PagingValues(0)}
  \cup {ApiData("absent", <<>>, NoList, NoPaging, Array(<<>>), t) : t \in PagingValues(0)}

\* part_001 lines 105-156: the list branch on the upstream's answer
ListBranch ==
  /\ run = NoRun
  /\ variant = "body"
  /\ \E apiData \in ListPayloads :
       run' = [fn |-> "list", in |-> apiData, out |-> TransformedData(apiData)]
  /\ UNCHANGED <<variant, now, authToken, tokenExpiry, tokenWriter, expiryWriter, req>>

\* ---- the create and update branches of the body-routed handler ----
\* the caller's JSON body, key by key: the eight fields the upstream knows, and
\* keys it does not (the routing's method and productId, and one more). A value
\* is Absent (no such key), JsNull, or the JSON text of the value; images may be
\* the empty array, which is truthy
RecognizedFields ==
  {"name", "description", "price", "promotionalPrice", "isPromotionActive",
   "stockQuantity", "images", "isActive"}

Bodies ==
  [name : {Absent, JsNull, "A"}, description : {Absent, "B"}, price : {Absent, "10"},
   promotionalPrice : {Absent, "9"}, isPromotionActive : {Absent, "true"},
   stockQuantity : {Absent, "5"}, images : {Absent, JsNull, "[]", "[a]"},
   isActive : {Absent, "false", "true"},
   method : {"POST", "PUT"}, productId : {Absent, "p1"}, sku : {Absent, "s"}]

\* JSON.stringify(productData), lines 177 and 213: a key whose value is
\* undefined is left out
Stringify(productData) ==
  [f \in {g \in DOMAIN productData : productData[g] # Absent} |-> productData[f]]

\* the create payload without the default of isActive
CreateDataAsGiven(body) ==
  [name |-> body.name, description |-> body.description, price |-> body.price,
   promotionalPrice |-> body.promotionalPrice,
   isPromotionActive |-> body.isPromotionActive,
   stockQuantity |-> body.stockQuantity,
   images |-> OrElse(body.images, "[]"),
   isActive |-> body.isActive]

\* lines 162-171: productData of the POST branch
CreateData(body) ==
  [name |-> body.name, description |-> body.description, price |-> body.price,
   promotionalPrice |-> body.promotionalPrice,
   isPromotionActive |-> body.isPromotionActive,
   stockQuantity |-> body.stockQuantity,
   images |-> OrElse(body.images, "[]"),
   isActive |-> IF body.isActive # Absent THEN body.isActive ELSE "true"]

\* lines 198-207: productData of the PUT branch
UpdateData(body) ==
  [f \in {g \in RecognizedFields : body[g] # Absent} |-> body[f]]

\* lines 184-187 and 220-223: product = apiData.data || apiData, its images
\* mapped to urls when they are objects; every other key as the upstream gave it
ProductOf(apiData) ==
  LET product == apiData.product IN
  IF product.images.kind = "array" /\ ImagesThrow(product.images.items)
    THEN [thrown |-> TRUE, product |-> product]
    ELSE [thrown |-> FALSE,
          product |-> [product EXCEPT !.images =
                         IF @.kind = "array" THEN Array(MapUrls(@.items)) ELSE @]]

\* part_001 lines 160-178: the POST branch up to its upstream call
CreatePayload ==
  /\ run = NoRun
  /\ variant = "body"
  /\ \E body \in {b \in Bodies : b.method = "POST"} :
       run' = [fn |-> "create", in |-> body, out |-> Stringify(CreateData(body))]
  /\ UNCHANGED <<variant, now, authToken, tokenExpiry, tokenWriter, expiryWriter, req>>

\* part_001 lines 196-214: the PUT branch up to its upstream call
UpdatePayload ==
  /\ run = NoRun
  /\ variant = "body"
  /\ \E body \in {b \in Bodies : b.method = "PUT" /\ b.productId # Absent} :
       run' = [fn |-> "update", in |-> body, out |-> Stringify(UpdateData(body))]
  /\ UNCHANGED <<variant, now, authToken, tokenExpiry, tokenWriter, expiryWriter, req>>

\* part_001 lines 180-193 and 216-229: the POST and PUT branches on the
\* upstream's answer, the product being under data or the answer itself
ProductAnswer ==
  /\ run = NoRun
  /\ variant = "body"
  /\ \E apiData \in [wrapped : BOOLEAN, product : RawProducts] :
       run' = [fn |-> "product", in |-> apiData, out |-> ProductOf(apiData)]
  /\ UNCHANGED <<variant, now, authToken, tokenExpiry, tokenWriter, expiryWriter, req>>

\* ---- getAuthToken on the login's answer (lines 35-55) ----
\* bodies of an ok answer: each of the four paths missing, null, the empty
\* string, or a token of its own
LoginBodies ==
  [nested : {Undefined, Null, EmptyString, 1}, token : {Undefined, Null, EmptyString, 2},
   access_token : {Undefined, Null, EmptyString, 3},
   accessToken : {Undefined, Null, EmptyString, 4}]

\* answers of POST /auth/login: response.ok with a JSON body, or a status that
\* is not ok with a text
LoginResponses ==
  [ok : {TRUE}, status : {OkStatus}, text : {""}, data : LoginBodies]
    \cup [ok : {FALSE}, status : {Unauthorized, ServerError}, text : {"", "denied"},
          data : {LoginBody("none", Undefined)}]

\* lines 35-55: what getAuthToken makes of the answer: the token it returns, or
\* the Error it throws, with what the Error's message carries (status: 0 when
\* the message has none) and what console.error logged
AuthOutcome(response) ==
  LET res == LoginResult([kind |-> IF response.ok THEN "ok" ELSE "notok",
                          body |-> response.data]) IN
  IF res.thrown
    THEN [thrown |-> TRUE, token |-> Undefined,
          error |-> [message |-> "Failed to authenticate", status |-> response.status,
                     body |-> Absent],
          logged |-> response.text]
  ELSE IF ~Truthy(res.tok)
    THEN [thrown |-> TRUE, token |-> Undefined,
          error |-> [message |-> "No authentication token received", status |-> 0,
                     body |-> Absent],
          logged |-> "data"]
  ELSE [thrown |-> FALSE, token |-> res.tok,
        error |-> [message |-> "", status |-> 0, body |-> Absent], logged |-> ""]

\* lines 24-55: getAuthToken from the login's answer on
LoginAnswer ==
  /\ run = NoRun
  /\ \E response \in LoginResponses :
       run' = [fn |-> "login", in |-> response, out |-> AuthOutcome(response)]
  /\ UNCHANGED <<variant, now, authToken, tokenExpiry, tokenWriter, expiryWriter, req>>

NextShapes ==
  \/ LoginAnswer
  \/ DispatchRequest
  \/ ListBranch
  \/ CreatePayload
  \/ UpdatePayload
  \/ ProductAnswer

SpecShapes == Init /\ [][NextShapes]_vars

(* ---------------- properties ---------------- *)
\* the requests makeAuthenticatedRequest has handled or is handling
Routed == {r \in Reqs : req[r].attempt >= 1}

\* logins request r sent after the 401
ReLogins(r) == req[r].nLogin - (IF req[r].hit THEN 0 ELSE 1)

\* C1 as stated: a request whose first call was answered 401 ends after exactly
\* one retry, that is with exactly two product calls sent.
C1_ExactlyOneRetry ==
  \A r \in Routed :
    req[r].pc = "done" /\ req[r].first = Unauthorized => Len(req[r].shapes) = 2

\* C1 amended: a 401 to the first call triggers exactly one login; the retry is
\* sent exactly once, with the first call's method, endpoint and body, when that
\* login succeeds, and not at all when it fails; the retry's answer, a 401
\* included, is what makeAuthenticatedRequest returns: never a third call nor a
\* third login.
C1_BoundedRetry ==
  \A r \in Routed :
    LET rec == req[r] IN
    /\ Len(rec.shapes) <= 2
    /\ rec.attempt <= 2
    /\ rec.first # Unauthorized => ReLogins(r) = 0 /\ Len(rec.shapes) <= 1
    /\ rec.first = Unauthorized =>
         /\ rec.attempt = 2
         /\ ReLogins(r) = 1
         /\ rec.pc \in {"login", "gotToken"} => Len(rec.shapes) = 1
         /\ rec.pc = "call" => Len(rec.shapes) = 2 /\ rec.shapes[2] = rec.shapes[1]
         /\ rec.pc = "done" =>
              IF rec.authFailed THEN Len(rec.shapes) = 1 /\ rec.upstream = 0
              ELSE /\ Len(rec.shapes) = 2
                   /\ rec.shapes[2] = rec.shapes[1]
                   /\ rec.upstream \in UpstreamStatuses \cup {NetErr}
    /\ rec.pc = "done" /\ rec.upstream = Unauthorized =>
         rec.first = Unauthorized /\ Len(rec.shapes) = 2

\* a request whose retry was answered 401 too has ended
C1_Witness ==
  \E r \in Routed :
    /\ req[r].pc = "done"
    /\ req[r].first = Unauthorized
    /\ req[r].upstream = Unauthorized
    /\ Len(req[r].shapes) = 2

\* the cache holds a credential whose expiry is ahead
HoldsValid == authToken > 0 /\ tokenExpiry > now

\* C2: a request whose first getAuthToken call finds a credential with expiry >
\* now gets exactly that token and sends no login; one that finds none sends one
\* login; the only other login of a request is the one right after a 401.
C2_CachedTokenNoLogin ==
  \A r \in Routed :
    LET rec == req[r] IN
    /\ rec.sawValid <=> rec.hit
    /\ rec.hit /\ rec.attempt = 1 /\ rec.pc = "gotToken" => rec.token = rec.sawTok
    /\ rec.nLogin = (IF rec.sawValid THEN 0 ELSE 1)
                      + (IF rec.first = Unauthorized THEN 1 ELSE 0)

\* a request holds a token it got from the cache, with no login sent
C2_Witness ==
  \E r \in Routed :
    /\ req[r].pc = "gotToken"
    /\ req[r].hit
    /\ req[r].nLogin = 0
    /\ req[r].sawValid
    /\ req[r].token = authToken
    /\ HoldsValid

\* C3 as stated: a request that finds the stored credential expired sends exactly
\* one login.
C3_ExactlyOneLogin ==
  \A r \in Routed : req[r].startExpired => req[r].nLogin = 1

\* C3 amended: a request that finds the stored credential expired does not get
\* the stored token; it sends exactly one login before its first product call,
\* and a second one only after that call is answered 401.
C3_ExpiredReauth ==
  \A r \in Routed :
    req[r].startExpired =>
      /\ ~req[r].hit
      /\ req[r].nLogin = (IF req[r].first = Unauthorized THEN 2 ELSE 1)
      /\ req[r].attempt = 1 /\ req[r].pc = "call" => req[r].sent = LoginId(r, 1)

\* a request that found the stored credential expired has sent its first product
\* call after one login
C3_Witness ==
  \E r \in Routed :
    /\ req[r].startExpired
    /\ req[r].pc = "call"
    /\ req[r].attempt = 1
    /\ req[r].nLogin = 1

\* C4: every product call goes out with a token whose expiry is still ahead.
C4_TokenSentWithinExpiry ==
  \A r \in Routed : req[r].pc = "call" => req[r].sentLive

\* C5: whenever the cache check holds, the token and the expiry it reads were
\* written by one and the same login.
C5_NoTornRead ==
  CacheValid(authToken, tokenExpiry, now) =>
    /\ tokenWriter = expiryWriter
    /\ tokenWriter # 0
    /\ authToken = tokenWriter

\* a request got the cached token while another request's login is in flight
C5_Witness ==
  \E r, q \in Routed :
    /\ req[r].pc = "gotToken"
    /\ req[r].hit
    /\ req[q].pc = "login"
    /\ CacheValid(authToken, tokenExpiry, now)

\* C6: a login that fails leaves the stored token and the stored expiry as they
\* were (null and undefined both being no token).
C6_FailedLoginLeavesCache ==
  \A r \in Routed :
    req[r].pc = "done" /\ req[r].authFailed => req[r].effect \in {"none", "blank"}

\* C7 as stated: a login that fails leaves the cache holding no valid credential.
C7_FailureLeavesCacheEmpty ==
  \A r \in Routed : req[r].pc = "done" /\ req[r].authFailed => ~req[r].leftValid

\* C7 amended: a login that fails ends its request with a 500 and installs no
\* credential: after it the cache is valid only if it was left untouched, holding
\* what another request's login installed; and whatever failed before, a request
\* that finds no valid credential logs in afresh, and once that login succeeded
\* the request goes on to its product call and to the answer of that call.
C7_FailureNotPoisoning ==
  \A r \in Routed :
    LET rec == req[r] IN
    /\ rec.pc = "done" /\ rec.authFailed =>
         /\ rec.status = ServerError
         /\ rec.upstream = 0
         /\ rec.leftValid => rec.effect = "none"
    /\ ~rec.sawValid => rec.nLogin >= 1
    /\ ~rec.sawValid /\ rec.pc = "gotToken" /\ rec.attempt = 1 =>
         rec.token = LoginId(r, 1)
    /\ ~rec.sawValid /\ rec.pc = "done" /\ ~rec.authFailed =>
         rec.upstream # 0 /\ Len(rec.shapes) >= 1

\* one request ended on a failed login, and a later one logged in afresh and got a
\* 2xx answer from the upstream passed to its caller
C7_Witness ==
  \E r, q \in Routed :
    /\ r < q
    /\ req[r].pc = "done" /\ req[r].authFailed /\ req[r].status = ServerError
    /\ ~CacheValid(authToken, tokenExpiry, now) \/ authToken = LoginId(q, 1)
    /\ req[q].pc = "done" /\ ~req[q].sawValid /\ req[q].nLogin = 1
    /\ req[q].upstream = OkStatus /\ req[q].status = OkStatus

\* the statuses of the model that are neither 2xx nor 401
OtherErrors == UpstreamStatuses \ {OkStatus, Unauthorized}

\* C8: an answer that is neither 2xx nor 401 ends makeAuthenticatedRequest at
\* once: that answer is what it returns, after the one call, with no login sent
\* for it and the cache as it was.
C8_OtherErrorsReturned ==
  \A r \in Routed :
    LET rec == req[r] IN
    rec.first \in OtherErrors =>
      /\ rec.pc = "done"
      /\ rec.attempt = 1
      /\ rec.upstream = rec.first
      /\ ~rec.authFailed
      /\ Len(rec.shapes) = 1
      /\ rec.nLogin = (IF rec.hit THEN 0 ELSE 1)
      /\ rec.effect = "none"

\* a request ended on a 500 of the upstream while a valid credential is cached
C8_Witness ==
  \E r \in Routed :
    /\ req[r].pc = "done"
    /\ req[r].first = ServerError
    /\ req[r].upstream = ServerError
    /\ CacheValid(authToken, tokenExpiry, now)

\* C9: a request whose last upstream answer is not a 2xx is answered with that
\* upstream status.
C9_UpstreamStatusPassed ==
  \A r \in Routed :
    req[r].pc = "done" /\ req[r].upstream \in UpstreamStatuses \ {OkStatus} =>
      req[r].status = req[r].upstream

\* requests r and q both found no valid credential, both logged in with success,
\* neither was answered 401, and no other request logged in or cleared the cache
Raced(r, q) ==
  /\ r # q
  /\ \A x \in {r, q} :
       /\ req[x].attempt = 1
       /\ ~req[x].sawValid
       /\ req[x].pc \in {"gotToken", "call", "done"}
       /\ ~req[x].authFailed
  /\ \A x \in Reqs \ {r, q} : req[x].nLogin = 0 /\ req[x].attempt <= 1

\* C10: when two requests both find no valid credential and both log in, each
\* sends its product call with the token of its own login, neither fails for the
\* other's login, and the cache holds the token and the expiry of one and the
\* same of the two logins, the expiry being a validity window ahead of that login.
C10_DuplicateLoginHarmless ==
  \A r, q \in Reqs :
    Raced(r, q) =>
      /\ \A x \in {r, q} :
           /\ req[x].nLogin = 1
           /\ req[x].pc = "gotToken" => req[x].token = LoginId(x, 1)
           /\ req[x].pc = "call" => req[x].sent = LoginId(x, 1)
           /\ req[x].pc = "done" => req[x].upstream # 0 /\ Len(req[x].shapes) = 1
      /\ authToken \in {LoginId(r, 1), LoginId(q, 1)}
      /\ tokenWriter = authToken
      /\ expiryWriter = authToken
      /\ tokenExpiry >= TTL

\* both requests logged in before either's token was in the cache (no time has
\* passed since), and both have their answers
C10_Witness ==
  \E r, q \in Reqs :
    /\ Raced(r, q)
    /\ now = 0
    /\ req[r].pc = "done" /\ req[r].upstream = OkStatus
    /\ req[q].pc = "done" /\ req[q].upstream = OkStatus
    /\ authToken \in {LoginId(r, 1), LoginId(q, 1)}

C13_PreflightImmediate ==
  \A r \in Reqs :
    LET rec == req[r] IN
    rec.asked = "preflight" =>
      /\ rec.pc = "done"
      /\ rec.op = "options"
      /\ rec.status = OkStatus
      /\ ~rec.threw
      /\ rec.attempt = 0
      /\ rec.nLogin = 0
      /\ rec.shapes = <<>>
      /\ rec.effect = "none"

\* a preflight request was answered while a valid credential was cached, and the
\* credential is still there
C13_Witness ==
  \E r, q \in Reqs :
    /\ q < r
    /\ req[r].asked = "preflight" /\ req[r].pc = "done" /\ req[r].status = OkStatus
    /\ req[q].pc = "done" /\ req[q].nLogin = 1
    /\ HoldsValid /\ authToken = LoginId(q, 1)

\* the ids a caller names
Ids == {"p1"}

\* the operation a request is, read off the request as the inbound surface
\* writes it: GET and POST on .../products, PUT and DELETE on .../products/{id}
\* for the path-routed handler (POST and PUT carry a JSON body); a JSON body with
\* method GET (or none), POST, PUT or DELETE, the last two with productId, for the
\* body-routed one. query: the caller's parameters as key=value pairs.
Operation(v, in) ==
  LET n == Len(in.segs)
      none == [kind |-> "none", id |-> Absent, query |-> <<>>] IN
  IF v = "path"
    THEN IF n >= 1 /\ in.segs[n] = "products" /\ in.method = "GET"
           THEN [kind |-> "list", id |-> Absent,
                 query |-> [i \in 1..Len(in.search) |->
                              [k |-> in.search[i].k, v |-> in.search[i].v]]]
         ELSE IF n >= 1 /\ in.segs[n] = "products" /\ in.method = "POST" /\ in.bodyOk
           THEN [kind |-> "create", id |-> Absent, query |-> <<>>]
         ELSE IF n >= 2 /\ in.segs[n - 1] = "products" /\ in.segs[n] \in Ids
           THEN IF in.method = "PUT" /\ in.bodyOk
                  THEN [kind |-> "update", id |-> in.segs[n], query |-> <<>>]
                ELSE IF in.method = "DELETE"
                  THEN [kind |-> "delete", id |-> in.segs[n], query |-> <<>>]
                ELSE none
         ELSE none
    ELSE IF in.method # "POST" \/ ~in.bodyOk THEN none
         ELSE IF in.bmethod \in {"absent", "GET"}
           THEN [kind |-> "list", id |-> Absent,
                 query |-> IF in.hasParams
                             THEN [i \in 1..Len(in.params) |->
                                     [k |-> in.params[i].k, v |-> in.params[i].v]]
                             ELSE <<>>]
         ELSE IF in.bmethod = "POST" THEN [kind |-> "create", id |-> Absent, query |-> <<>>]
         ELSE IF in.bmethod \in {"PUT", "DELETE"} /\ in.productId \in Ids
           THEN [kind |-> IF in.bmethod = "PUT" THEN "update" ELSE "delete",
                 id |-> in.productId, query |-> <<>>]
         ELSE none

\* C11: every request that is one of the four operations is taken to one
\* upstream call: GET /admin/products with the caller's parameters and a '?' only
\* when there are some, POST /admin/products, PUT or DELETE /admin/products/{id}
\* with the caller's id.
C11_OperationToCallShape ==
  run.fn = "dispatch" =>
    LET o == Operation(variant, run.in)
        out == run.out IN
    o.kind # "none" =>
      /\ out.kind = "call"
      /\ out.op = o.kind
      /\ out.method = (CASE o.kind = "list" -> "GET" [] o.kind = "create" -> "POST"
                         [] o.kind = "update" -> "PUT" [] o.kind = "delete" -> "DELETE")
      /\ out.endpoint.base = (IF o.kind \in {"list", "create"} THEN "/admin/products"
                              ELSE "/admin/products/")
      /\ out.endpoint.id = o.id
      /\ out.endpoint.query = o.query
      /\ out.endpoint.mark = (o.query # <<>>)

\* the list branch has answered with a body
Listed == run.fn = "list" /\ ~run.out.thrown

\* a divided by b, rounded up
CeilDiv(a, b) == (a + b - 1) \div b

\* C14: when the upstream gives a total and a limit and no totalPages, the
\* envelope's totalPages is its total divided by its limit, rounded up (25
\* products by 10 a page: 3 pages).
C14_TotalPagesCeiling ==
  /\ Listed
  /\ run.in.data.totalPages = Undefined /\ run.in.totalPages = Undefined
  /\ run.in.totalProducts > 0 /\ run.in.limit > 0
  /\ run.in.data.totalProducts = Undefined /\ run.in.data.limit = Undefined
  => /\ run.out.pagination.total = run.in.totalProducts
     /\ run.out.pagination.limit = run.in.limit
     /\ run.out.pagination.totalPages = CeilDiv(run.in.totalProducts, run.in.limit)

\* the values a field has under its aliases, top-level and nested, where given
Given(vals) == {x \in vals : x # Undefined}

\* C15: each field of the envelope has a value the upstream gave under one of the
\* field's aliases (top-level or nested in data) whenever it gave one, and the
\* default (page 1, limit 10, total 0, totalPages 1) when it gave none.
C15_AliasNeverDropped ==
  Listed =>
    LET in == run.in
        out == run.out.pagination
        from(x, vals, default) ==
          IF Given(vals) = {} THEN x = default ELSE x \in Given(vals) IN
    /\ from(out.page, {in.data.currentPage, in.data.page, in.currentPage, in.page}, 1)
    /\ from(out.limit, {in.data.limit, in.limit}, 10)
    /\ from(out.total, {in.data.totalProducts, in.data.total, in.totalProducts, in.total}, 0)
    /\ from(out.totalPages, {in.data.totalPages, in.totalPages}, 1)

\* an id alias holds an id: the key is there and not null
HasId(v) == v \notin {Absent, JsNull}

\* C16: the id of every list item is the first of productId, _id, id that its
\* upstream product holds, in that order: _id when there is no productId, and
\* productId whenever it is there.
C16_IdFirstAlias ==
  Listed =>
    LET products == Products(run.in).items IN
    /\ Len(run.out.data) = Len(products)
    /\ \A i \in 1..Len(products) :
         LET raw == products[i] IN
         run.out.data[i].id =
           (IF HasId(raw.productId) THEN raw.productId
            ELSE IF HasId(raw._id) THEN raw._id
            ELSE raw.id)

\* a product with an _id, an id and no productId got its _id as id
C16_Witness ==
  /\ Listed
  /\ Len(run.out.data) = 1
  /\ run.in.products.items[1].productId = Absent
  /\ run.in.products.items[1]._id = "x123"
  /\ run.in.products.items[1].id = "i1"
  /\ run.out.data[1].id = "x123"

\* C17: in a list answer and in the answer to a create or an update, images that
\* are all objects with a url become the urls, as strings, in the same order and
\* number; images that are all strings stay as they are; normalizing the result
\* again changes nothing; and in a list answer missing images become the empty
\* array.
C17_ImagesToUrls ==
  /\ run.fn = "product" /\ ~run.out.thrown /\ run.in.product.images.kind = "array" =>
       LET raw == run.in.product.images
           out == run.out.product.images IN
       /\ out.kind = "array"
       /\ Len(out.items) = Len(raw.items)
       /\ (\A j \in 1..Len(raw.items) : raw.items[j].t = "object" /\ raw.items[j].v # Absent)
            => \A j \in 1..Len(raw.items) :
                 out.items[j] = [t |-> "string", v |-> raw.items[j].v]
       /\ (\A j \in 1..Len(raw.items) : raw.items[j].t = "string")
            => out.items = raw.items
       /\ ProductOf([run.in EXCEPT !.product = run.out.product]) = run.out
  /\ Listed =>
    LET products == Products(run.in).items IN
    \A i \in 1..Len(run.out.data) :
      LET raw == products[i].images
          out == run.out.data[i].images IN
      /\ out.kind = "array"
      /\ raw.kind = "absent" => out.items = <<>>
      /\ raw.kind = "array" =>
           /\ Len(out.items) = Len(raw.items)
           /\ (\A j \in 1..Len(raw.items) : raw.items[j].t = "object" /\ raw.items[j].v # Absent)
                => \A j \in 1..Len(raw.items) :
                     out.items[j] = [t |-> "string", v |-> raw.items[j].v]
           /\ (\A j \in 1..Len(raw.items) : raw.items[j].t = "string")
                => out.items = raw.items
      /\ ListImages(out) = out

\* two images given as objects came out as their two urls, in their order
C17_Witness ==
  /\ Listed
  /\ Len(run.out.data) = 1
  /\ run.in.products.items[1].images =
       Array(<<[t |-> "object", v |-> "a"], [t |-> "object", v |-> "b"]>>)
  /\ run.out.data[1].images =
       Array(<<[t |-> "string", v |-> "a"], [t |-> "string", v |-> "b"]>>)

\* the first of data.products, products, data that holds a product list
FirstList(apiData) ==
  IF apiData.data.products.kind = "array" THEN apiData.data.products
  ELSE IF apiData.products.kind = "array" THEN apiData.products
  ELSE IF apiData.data.kind = "array" THEN Array(apiData.data.items)
  ELSE NoList

\* C18: the list answer has one item for each product of the first of
\* data.products, products, data that holds a list, in order; when none does,
\* the request succeeds with data = [].
C18_FirstContainer ==
  run.fn = "list" =>
    LET list == FirstList(run.in) IN
    IF list = NoList THEN ~run.out.thrown /\ run.out.data = <<>>
    ELSE run.out.thrown \/
         run.out.data = [i \in 1..Len(list.items) |-> TransformProduct(list.items[i])]

\* C19: the update payload sent upstream has exactly the recognized fields the
\* caller's body has, each with the caller's value; the create payload has
\* recognized fields only, each field the caller gave with the caller's value
\* (isActive false included), isActive true when the caller gave none, and
\* images [] when the caller gave none.
C19_OutboundShaping ==
  LET sent(f, v) == f \in DOMAIN run.out /\ run.out[f] = v IN
  /\ run.fn = "update" =>
       /\ DOMAIN run.out = {f \in RecognizedFields : run.in[f] # Absent}
       /\ \A f \in DOMAIN run.out : run.out[f] = run.in[f]
  /\ run.fn = "create" =>
       /\ DOMAIN run.out \subseteq RecognizedFields
       /\ \A f \in RecognizedFields \ {"images", "isActive"} :
            IF run.in[f] = Absent THEN f \notin DOMAIN run.out
            ELSE f \in DOMAIN run.out /\ run.out[f] = run.in[f]
       /\ sent("isActive", IF run.in.isActive = Absent THEN "true" ELSE run.in.isActive)
       /\ run.in.images = Absent => sent("images", "[]")
       /\ run.in.images \notin {Absent, JsNull} => sent("images", run.in.images)

\* a create with name, description, price and stockQuantity only went out with
\* isActive true and images [] added, and without the body's other keys
C19_Witness ==
  /\ run.fn = "create"
  /\ {f \in RecognizedFields : run.in[f] # Absent} =
       {"name", "description", "price", "stockQuantity"}
  /\ run.in.sku # Absent
  /\ DOMAIN run.out = {"name", "description", "price", "stockQuantity", "images", "isActive"}
  /\ run.out["isActive"] = "true"
  /\ run.out["images"] = "[]"

\* C20: the product answered to a create or an update has as id the first of
\* productId, _id, id its upstream product holds, as a list item has, and its
\* images as url strings.
C20_AnswerCanonical ==
  run.fn = "product" /\ ~run.out.thrown =>
    LET raw == run.in.product IN
    /\ run.out.product.id =
         (IF HasId(raw.productId) THEN raw.productId
          ELSE IF HasId(raw._id) THEN raw._id
          ELSE raw.id)
    /\ run.out.product.images.kind = "array" =>
         \A j \in 1..Len(raw.images.items) :
           raw.images.items[j].t = "object" /\ raw.images.items[j].v # Absent
             => run.out.product.images.items[j].t = "string"

\* a path of the login's body holds a token: a non-empty string
IsToken(x) == x \notin {Undefined, Null, EmptyString}

\* C21: from an ok login answer getAuthToken returns the token of the first of
\* the paths data.tokens.accessToken, token, access_token, accessToken that holds
\* one; when none does it throws and returns no token.
C21_TokenFirstPath ==
  run.fn = "login" /\ run.in.ok =>
    LET d == run.in.data
        none == \A x \in {d.nested, d.token, d.access_token, d.accessToken} : ~IsToken(x) IN
    /\ run.out.thrown <=> none
    /\ none => run.out.token = Undefined /\ run.out.error.message # ""
    /\ ~none =>
         run.out.token =
           (IF IsToken(d.nested) THEN d.nested
            ELSE IF IsToken(d.token) THEN d.token
            ELSE IF IsToken(d.access_token) THEN d.access_token
            ELSE d.accessToken)

\* an answer with no nested token and a token at each of the three other paths
\* gave the one at token
C21_Witness ==
  /\ run.fn = "login"
  /\ run.in.ok
  /\ run.in.data.nested = Undefined
  /\ run.in.data.token = 2 /\ run.in.data.access_token = 3 /\ run.in.data.accessToken = 4
  /\ ~run.out.thrown
  /\ run.out.token = 2

\* C23: on a login answer whose status is not ok, getAuthToken throws an error
\* that carries the upstream's status and the upstream's body.
C23_ErrorCarriesStatusAndBody ==
  run.fn = "login" /\ ~run.in.ok =>
    /\ run.out.thrown
    /\ run.out.error.status = run.in.status
    /\ run.out.error.body = run.in.text

\* C22: a credential installed by a login and not invalidated by a 401 since is
\* whole (the stored token and the stored expiry are those of that one login) and
\* is valid at every instant before its expiry.
C22_CredentialWholeUntilExpiry ==
  expiryWriter # 0 =>
    /\ tokenWriter = expiryWriter
    /\ authToken = expiryWriter
    /\ now < tokenExpiry => CacheValid(authToken, tokenExpiry, now)

\* a create or an update that failed: the upstream answered a 500, or the handler
\* threw once the call was out
FailedWrites ==
  {r \in Routed : /\ req[r].pc = "done"
                  /\ req[r].op \in {"create", "update"}
                  /\ req[r].upstream # 0
                  /\ req[r].upstream \in OtherErrors \/ req[r].threw}

\* C24 as stated: after a failed create or update with no 401 the cache is as it
\* was before the request; for the first request, with none other arrived, that
\* is the empty cache.
C24_FailedWriteRestoresCache ==
  \A r \in FailedWrites :
    /\ r = 1
    /\ \A q \in Reqs \ {r} : req[q].pc = "idle"
    /\ req[r].first # Unauthorized
    => authToken = Null /\ tokenExpiry = ZeroExpiry

\* C24 amended: a failed create or update writes the cache only by the login it
\* sent on finding no valid credential and by the clear and the login of the 401
\* retry; the step on which it fails leaves the stored pair as it was.
C24_FailedWriteNoExtraMutation ==
  \A r \in FailedWrites :
    /\ req[r].effect = "none"
    /\ ~req[r].authFailed
    /\ req[r].nLogin = (IF req[r].sawValid THEN 0 ELSE 1)
                         + (IF req[r].first = Unauthorized THEN 1 ELSE 0)
    /\ Len(req[r].shapes) = (IF req[r].first = Unauthorized THEN 2 ELSE 1)

\* a create that found a valid credential failed on a 500 and the credential is
\* still the valid one
C24_Witness ==
  \E r \in FailedWrites :
    /\ req[r].op = "create"
    /\ req[r].sawValid
    /\ req[r].first = ServerError
    /\ req[r].nLogin = 0
    /\ CacheValid(authToken, tokenExpiry, now)

\* C25: after a 401 the request goes on with the token of the login it sent after
\* that 401, and sends the retry with it: never a token read from the cache, never
\* the token of another request's login.
C25_RetryTokenOwnLogin ==
  \A r \in Routed :
    req[r].attempt = 2 =>
      /\ ReLogins(r) = 1
      /\ req[r].pc = "gotToken" => req[r].token = LoginId(r, req[r].nLogin)
      /\ req[r].pc = "call" => req[r].sent = LoginId(r, req[r].nLogin)

\* a retry is out with the token of its own login while the cache holds the
\* token another request's login installed since
C25_Witness ==
  \E r, q \in Routed :
    /\ r # q
    /\ req[r].attempt = 2
    /\ req[r].pc = "call"
    /\ req[r].sent = LoginId(r, req[r].nLogin)
    /\ req[q].nLogin >= 1
    /\ authToken = LoginId(q, req[q].nLogin)

\* the tokens of the logins that answered with one so far: of request q's logins,
\* all but one still out or one that failed
LoginTokens ==
  UNION {{LoginId(q, k) : k \in 1..(IF req[q].pc = "login" \/ req[q].authFailed
                                      THEN req[q].nLogin - 1 ELSE req[q].nLogin)} :
         q \in Reqs}

\* C26: the token a request got from getAuthToken, and the token of every product
\* call that is out, is a non-empty string that a login answered with before:
\* never null, undefined or the empty string.
C26_CallsCarryLoginToken ==
  \A r \in Routed :
    /\ req[r].pc = "gotToken" => IsToken(req[r].token) /\ req[r].token \in LoginTokens
    /\ req[r].pc = "call" => IsToken(req[r].sent) /\ req[r].sent \in LoginTokens

\* a call is out with the token of its request's login while the cache holds the
\* empty string another request's login answered with since
C26_Witness ==
  \E r, q \in Routed :
    /\ r # q
    /\ req[r].pc = "call"
    /\ req[r].sent = LoginId(r, 1)
    /\ req[q].authFailed
    /\ authToken = EmptyString

\* C28: a request with a body the handler reads and cannot parse is answered 500
\* from the catch, with no login sent, no product call sent and the cache as it was.
C28_UnreadableBody500 ==
  \A r \in Reqs :
    req[r].pc # "idle" /\ req[r].unreadable =>
      /\ req[r].pc = "done"
      /\ req[r].status = ServerError
      /\ req[r].threw
      /\ req[r].attempt = 0
      /\ req[r].nLogin = 0
      /\ req[r].shapes = <<>>
      /\ req[r].effect = "none"

\* a request with an unreadable body got its 500 while another request's call is
\* out and the credential that request installed is still the valid one
C28_Witness ==
  \E r, q \in Reqs :
    /\ req[r].unreadable
    /\ req[r].status = ServerError
    /\ req[q].pc = "call"
    /\ CacheValid(authToken, tokenExpiry, now)
    /\ req[r].nLogin = 0

\* C27: with every upstream call answering or failing, every request that came in
\* gets its response, having sent at most two logins and at most two product
\* calls; and a request that has its response does nothing more.
C27_EveryRequestAnswered ==
  /\ \A r \in Reqs :
       req[r].pc # "idle" ~>
         (req[r].pc = "done" /\ req[r].nLogin <= 2 /\ Len(req[r].shapes) <= 2)
  /\ [][\A r \in Reqs :
          /\ req[r].pc = "done" => req'[r] = req[r]
          /\ req'[r].nLogin <= 2
          /\ Len(req'[r].shapes) <= 2]_vars

\* a request has its response after two logins and two product calls
C27_Witness ==
  \E r \in Reqs :
    /\ req[r].pc = "done"
    /\ req[r].status # 0
    /\ req[r].nLogin = 2
    /\ Len(req[r].shapes) = 2

====
